---- MODULE Spec2Model ----
(***************************************************************************)
(* State-diff capture layer of hero5512/go-ethereum.                       *)
(*                                                                         *)
(*   core/state/statedb_diff.go   DiffStateDb: the tracker that wraps the  *)
(*                                StateDB accessors and keeps LocalObject  *)
(*   txdb (TxDb)                  the batched sqlite store of transcripts  *)
(*   core/state_processor.go      Process / applyTransaction               *)
(*                                                                         *)
(* The base engine (StateDB, stateObject, journal) is upstream go-ethereum *)
(* code that DiffStateDb embeds; it is modelled here as far as the tracker *)
(* reads and writes it.                                                    *)
(***************************************************************************)
EXTENDS Integers, Sequences, FiniteSets, TLC

\* ------------------------------------------------------------------ bounds
MaxOps == 2         \* accessor, Snapshot and RevertToSnapshot calls per run
MaxTxs == 2         \* Prepare calls per run
MaxRevisions == 2   \* Snapshot calls per run
Threshold == 2      \* the store's batch size in the model (TxDb.cache)
MaxStoreCalls == 5  \* calls on the store per run of the store specification
MaxBlockTxs == 3    \* transactions of the block handed to Process

\* ------------------------------------------------------------- value sets
Addrs == {"A1", "A2"}
Keys == {"01", "02"}
NilCode == "nil"
emptyCodeHash == "h()"
TxHashes == {"abc", "def"}

Keccak256Hash(code) ==
    CASE code = "c1" -> "h(c1)"
      [] code = "c2" -> "h(c2)"
      [] OTHER -> emptyCodeHash

\* db.ContractCode: the code stored under a code hash
ContractCode(hash) ==
    CASE hash = "h(c1)" -> "c1"
      [] hash = "h(c2)" -> "c2"
      [] OTHER -> NilCode

\* ------------------------------------------------------------------- maps
EmptyMap == [k \in {} |-> 0]
Has(m, k) == k \in DOMAIN m
Put(m, k, v) == [x \in (DOMAIN m) \cup {k} |-> IF x = k THEN v ELSE m[x]]
\* Go's m[k] on a missing key: the zero value
Lookup(m, k) == IF k \in DOMAIN m THEN m[k] ELSE 0

\* ------------------------------------------------------------ base engine
\* A stateObject. originStorage is a Go map, a reference: it is held as an
\* index into db.maps, so that two holders of the same map see each other's
\* writes. root is the content of the object's committed storage trie.
NoObject ==
    [present |-> FALSE, Nonce |-> 0, Balance |-> 0, CodeHash |-> emptyCodeHash,
     code |-> NilCode, originStorage |-> 0, root |-> EmptyMap,
     pendingStorage |-> EmptyMap, dirtyStorage |-> EmptyMap,
     suicided |-> FALSE, deleted |-> FALSE]

\* newObject(db, address, Account{}): a fresh object with its own maps
newObject(mapId) ==
    [NoObject EXCEPT !.present = TRUE, !.originStorage = mapId]

\* The accounts of the state trie the run starts from: A1 is a contract with
\* balance 50 whose slot 02 holds 7 (01 is unset), A2 does not exist.
GenesisObjects ==
    [a \in Addrs |->
        IF a = "A1"
        THEN [newObject(1) EXCEPT !.Nonce = 1, !.Balance = 50,
                                  !.CodeHash = "h(c1)",
                                  !.root = [k \in {"02"} |-> 7]]
        ELSE NoObject]

NewStateDB ==
    [objs |-> GenesisObjects,
     maps |-> <<EmptyMap>>,
     journal |-> <<>>,
     validRevisions |-> <<>>,
     nextRevisionId |-> 0]

\* StateDB.getDeletedStateObject / getStateObject
getDeletedStateObject(db, addr) == db.objs[addr]
getStateObject(db, addr) ==
    IF db.objs[addr].present /\ ~db.objs[addr].deleted THEN db.objs[addr] ELSE NoObject

\* stateObject.empty
empty(obj) == obj.Nonce = 0 /\ obj.Balance = 0 /\ obj.CodeHash = emptyCodeHash

\* StateDB.createObject: a new object replaces whatever was there; the journal
\* keeps the previous one
createObject(db, addr) ==
    LET prev == getDeletedStateObject(db, addr)
        id == Len(db.maps) + 1
        entry == IF prev.present
                 THEN [kind |-> "resetObject", account |-> addr, prev |-> prev]
                 ELSE [kind |-> "createObject", account |-> addr]
    IN [db EXCEPT !.objs[addr] = newObject(id),
                  !.maps = Append(db.maps, EmptyMap),
                  !.journal = Append(db.journal, entry)]

\* the previous object createObject returns to its caller: none when there
\* was none or when the one there was deleted
createObjectPrev(db, addr) ==
    LET prev == getDeletedStateObject(db, addr)
    IN IF prev.present /\ ~prev.deleted THEN prev ELSE NoObject

\* stateObject.setBalance through StateDB.CreateAccount's carry-over
setBalance(db, addr, amount) == [db EXCEPT !.objs[addr].Balance = amount]

\* stateObject.touch
touch(db, addr) ==
    [db EXCEPT !.journal = Append(db.journal, [kind |-> "touch", account |-> addr])]

\* stateObject.SetBalance
objSetBalance(db, addr, amount) ==
    [db EXCEPT !.journal = Append(db.journal,
                   [kind |-> "balance", account |-> addr, prev |-> db.objs[addr].Balance]),
               !.objs[addr].Balance = amount]

\* stateObject.AddBalance
objAddBalance(db, addr, amount) ==
    IF amount = 0
    THEN IF empty(db.objs[addr]) THEN touch(db, addr) ELSE db
    ELSE objSetBalance(db, addr, db.objs[addr].Balance + amount)

\* stateObject.SubBalance
objSubBalance(db, addr, amount) ==
    IF amount = 0
    THEN db
    ELSE objSetBalance(db, addr, db.objs[addr].Balance - amount)

\* stateObject.SetNonce
objSetNonce(db, addr, nonce) ==
    [db EXCEPT !.journal = Append(db.journal,
                   [kind |-> "nonce", account |-> addr, prev |-> db.objs[addr].Nonce]),
               !.objs[addr].Nonce = nonce]

\* stateObject.Code: the code, loaded from the database on first use
objCodeLoaded(obj) ==
    IF obj.code # NilCode THEN obj.code
    ELSE IF obj.CodeHash = emptyCodeHash THEN NilCode
    ELSE ContractCode(obj.CodeHash)

objCode(db, addr) == [db EXCEPT !.objs[addr].code = objCodeLoaded(db.objs[addr])]

\* stateObject.SetCode
objSetCode(db, addr, codeHash, code) ==
    LET prevcode == objCodeLoaded(db.objs[addr])
    IN [db EXCEPT !.journal = Append(db.journal,
                      [kind |-> "code", account |-> addr, prevcode |-> prevcode,
                       prevhash |-> db.objs[addr].CodeHash]),
                  !.objs[addr].code = code,
                  !.objs[addr].CodeHash = codeHash]

\* stateObject.GetCommittedState: the value, and the engine after the read
\* (a value read from the trie is cached in originStorage)
committedValue(db, addr, key) ==
    LET obj == db.objs[addr]
    IN IF Has(obj.pendingStorage, key) THEN obj.pendingStorage[key]
       ELSE IF Has(db.maps[obj.originStorage], key) THEN db.maps[obj.originStorage][key]
       ELSE Lookup(obj.root, key)

objGetCommittedState(db, addr, key) ==
    LET obj == db.objs[addr]
    IN IF Has(obj.pendingStorage, key) \/ Has(db.maps[obj.originStorage], key)
       THEN db
       ELSE [db EXCEPT !.maps[obj.originStorage] = Put(@, key, Lookup(obj.root, key))]

\* stateObject.GetState
stateValue(db, addr, key) ==
    IF Has(db.objs[addr].dirtyStorage, key)
    THEN db.objs[addr].dirtyStorage[key]
    ELSE committedValue(db, addr, key)

objGetState(db, addr, key) ==
    IF Has(db.objs[addr].dirtyStorage, key) THEN db ELSE objGetCommittedState(db, addr, key)

\* stateObject.SetState: nothing is written when the value does not change
objSetState(db, addr, key, value) ==
    LET prev == stateValue(db, addr, key)
        db1 == objGetState(db, addr, key)
    IN IF prev = value
       THEN db1
       ELSE [db1 EXCEPT !.journal = Append(db1.journal,
                            [kind |-> "storage", account |-> addr, key |-> key,
                             prevalue |-> prev]),
                        !.objs[addr].dirtyStorage = Put(@, key, value)]

\* StateDB.Suicide / the base part of DiffStateDb.Suicide: journal the change,
\* mark the object and zero its balance
objSuicide(db, addr) ==
    [db EXCEPT !.journal = Append(db.journal,
                   [kind |-> "suicide", account |-> addr,
                    prev |-> db.objs[addr].suicided,
                    prevbalance |-> db.objs[addr].Balance]),
               !.objs[addr].suicided = TRUE,
               !.objs[addr].Balance = 0]

\* journalEntry.revert, one entry
revertEntry(db, e) ==
    CASE e.kind = "createObject" -> [db EXCEPT !.objs[e.account] = NoObject]
      [] e.kind = "resetObject" -> [db EXCEPT !.objs[e.account] = e.prev]
      [] e.kind = "suicide" ->
            IF getStateObject(db, e.account).present
            THEN [db EXCEPT !.objs[e.account].suicided = e.prev,
                            !.objs[e.account].Balance = e.prevbalance]
            ELSE db
      [] e.kind = "balance" -> [db EXCEPT !.objs[e.account].Balance = e.prev]
      [] e.kind = "nonce" -> [db EXCEPT !.objs[e.account].Nonce = e.prev]
      [] e.kind = "storage" ->
            [db EXCEPT !.objs[e.account].dirtyStorage = Put(@, e.key, e.prevalue)]
      [] e.kind = "code" ->
            [db EXCEPT !.objs[e.account].code = e.prevcode,
                       !.objs[e.account].CodeHash = e.prevhash]
      [] OTHER -> db

\* journal.revert: undo the entries above the snapshot, last first
RECURSIVE revert(_, _)
revert(db, snapshot) ==
    IF Len(db.journal) <= snapshot
    THEN db
    ELSE LET e == db.journal[Len(db.journal)]
             undone == revertEntry(db, e)
         IN revert([undone EXCEPT !.journal = SubSeq(db.journal, 1, Len(db.journal) - 1)],
                   snapshot)

\* journal.dirties: the addresses the journal marks dirty
dirties(db) ==
    {db.journal[i].account :
        i \in {j \in 1..Len(db.journal) : db.journal[j].kind # "resetObject"}}

\* stateObject.finalise: dirty slots become pending
finalise(obj) ==
    [obj EXCEPT !.pendingStorage =
                    [k \in (DOMAIN obj.pendingStorage) \cup (DOMAIN obj.dirtyStorage) |->
                        IF k \in DOMAIN obj.dirtyStorage
                        THEN obj.dirtyStorage[k] ELSE obj.pendingStorage[k]],
                !.dirtyStorage = EmptyMap]

\* StateDB.Finalise(true): suicided and empty dirty objects are marked deleted,
\* the others finalised; the journal and the revisions are cleared
Finalise(db) ==
    [db EXCEPT !.objs = [a \in Addrs |->
                    IF a \in dirties(db) /\ db.objs[a].present
                    THEN IF db.objs[a].suicided \/ empty(db.objs[a])
                         THEN [db.objs[a] EXCEPT !.deleted = TRUE]
                         ELSE finalise(db.objs[a])
                    ELSE db.objs[a]],
               !.journal = <<>>,
               !.validRevisions = <<>>]

\* StateDB.Snapshot
Snapshot(db) ==
    [db EXCEPT !.nextRevisionId = db.nextRevisionId + 1,
               !.validRevisions = Append(db.validRevisions,
                    [id |-> db.nextRevisionId, journalIndex |-> Len(db.journal)])]

\* sort.Search over validRevisions: the first index whose id is >= revid
\* (Len + 1 when there is none)
searchRevision(db, revid) ==
    LET hits == {i \in 1..Len(db.validRevisions) : db.validRevisions[i].id >= revid}
    IN IF hits = {} THEN Len(db.validRevisions) + 1
       ELSE CHOOSE i \in hits : \A j \in hits : i <= j

\* whether RevertToSnapshot(revid) finds the revision (it panics otherwise)
revertible(db, revid) ==
    LET idx == searchRevision(db, revid)
    IN idx <= Len(db.validRevisions) /\ db.validRevisions[idx].id = revid

\* RevertToSnapshot on a revision it finds
\* a revert that leaves the revision it reverted to in the list
RevertToSnapshot_KeepsId(db, revid) ==
    LET idx == searchRevision(db, revid)
        undone == revert(db, db.validRevisions[idx].journalIndex)
    IN [undone EXCEPT !.validRevisions = SubSeq(db.validRevisions, 1, idx)]

\* a revert that also empties the storage maps the records hold
RevertToSnapshot_DropsMaps(db, revid) ==
    LET idx == searchRevision(db, revid)
        undone == revert(db, db.validRevisions[idx].journalIndex)
    IN [undone EXCEPT !.validRevisions = SubSeq(db.validRevisions, 1, idx - 1),
                      !.maps = [i \in DOMAIN db.maps |-> EmptyMap]]

RevertToSnapshot(db, revid) ==
    LET idx == searchRevision(db, revid)
        undone == revert(db, db.validRevisions[idx].journalIndex)
    IN [undone EXCEPT !.validRevisions = SubSeq(db.validRevisions, 1, idx - 1)]

\* ------------------------------------------- the accessors of StateDB itself
\* (what a caller gets without the tracker; the reference of the comparison)
StateDBGetOrNewStateObject(db, addr) ==
    IF getStateObject(db, addr).present THEN db ELSE createObject(db, addr)

StateDBCreateAccount(db, addr) ==
    LET prev == createObjectPrev(db, addr)
        db1 == createObject(db, addr)
    IN IF prev.present THEN setBalance(db1, addr, prev.Balance) ELSE db1

StateDBAddBalance(db, addr, amount) ==
    objAddBalance(StateDBGetOrNewStateObject(db, addr), addr, amount)

StateDBSubBalance(db, addr, amount) ==
    objSubBalance(StateDBGetOrNewStateObject(db, addr), addr, amount)

StateDBSetNonce(db, addr, nonce) ==
    objSetNonce(StateDBGetOrNewStateObject(db, addr), addr, nonce)

StateDBSetCode(db, addr, code) ==
    objSetCode(StateDBGetOrNewStateObject(db, addr), addr, Keccak256Hash(code), code)

StateDBSetState(db, addr, key, value) ==
    objSetState(StateDBGetOrNewStateObject(db, addr), addr, key, value)

StateDBGetCode(db, addr) ==
    IF getStateObject(db, addr).present THEN objCode(db, addr) ELSE db

StateDBGetState(db, addr, key) ==
    IF getStateObject(db, addr).present THEN objGetState(db, addr, key) ELSE db

StateDBGetCommittedState(db, addr, key) ==
    IF getStateObject(db, addr).present THEN objGetCommittedState(db, addr, key) ELSE db

StateDBSuicide(db, addr) ==
    IF getStateObject(db, addr).present THEN objSuicide(db, addr) ELSE db

\* ---------------------------------------------- what a caller can observe
\* The return values of the read accessors, which are the same code in
\* StateDB and in DiffStateDb once the bookkeeping is left out.
RetExist(db, addr) == getStateObject(db, addr).present
RetEmpty(db, addr) == ~getStateObject(db, addr).present \/ empty(getStateObject(db, addr))
RetGetBalance(db, addr) == getStateObject(db, addr).Balance
RetGetNonce(db, addr) == getStateObject(db, addr).Nonce
RetGetCodeHash(db, addr) ==
    IF getStateObject(db, addr).present THEN getStateObject(db, addr).CodeHash ELSE "0x0"
RetGetCode(db, addr) ==
    IF getStateObject(db, addr).present THEN objCodeLoaded(db.objs[addr]) ELSE NilCode
RetHasSuicided(db, addr) == getStateObject(db, addr).suicided
RetGetState(db, addr, key) ==
    IF getStateObject(db, addr).present THEN stateValue(db, addr, key) ELSE 0
RetGetCommittedState(db, addr, key) ==
    IF getStateObject(db, addr).present THEN committedValue(db, addr, key) ELSE 0

Observable(db) ==
    [a \in Addrs |->
        [exist |-> RetExist(db, a),
         empty |-> RetEmpty(db, a),
         balance |-> RetGetBalance(db, a),
         nonce |-> RetGetNonce(db, a),
         codeHash |-> RetGetCodeHash(db, a),
         code |-> RetGetCode(db, a),
         suicided |-> RetHasSuicided(db, a),
         state |-> [k \in Keys |-> RetGetState(db, a, k)],
         committed |-> [k \in Keys |-> RetGetCommittedState(db, a, k)]]]

\* ------------------------------------------------------------ DiffStateDb
\* Account: stateObject.data, copied by value into a record
Account(obj) == [Nonce |-> obj.Nonce, Balance |-> obj.Balance, CodeHash |-> obj.CodeHash]

\* a record whose origin account is left at its zero value
newLocalObject_ZeroOrigin(obj) ==
    [code |-> obj.code,
     originAccount |-> [Nonce |-> 0, Balance |-> 0, CodeHash |-> ""],
     currentAccount |-> Account(obj),
     originStorage |-> obj.originStorage,
     currentStorage |-> obj.originStorage]

\* newLocalObject: the code and the account are copied; originStorage and
\* currentStorage are both the object's originStorage map itself, not copies
newLocalObject(obj) ==
    [code |-> obj.code,
     originAccount |-> Account(obj),
     currentAccount |-> Account(obj),
     originStorage |-> obj.originStorage,
     currentStorage |-> obj.originStorage]

\* s.LocalObject[addr] = rec
SetLocal(lo, addr, rec) ==
    [a \in (DOMAIN lo) \cup {addr} |-> IF a = addr THEN rec ELSE lo[a]]

\* the first-touch step every accessor repeats:
\*   _, exist := s.LocalObject[addr]; if !exist { s.LocalObject[addr] = newLocalObject(*obj) }
EnsureLocal(db, lo, addr) ==
    IF addr \in DOMAIN lo THEN lo ELSE SetLocal(lo, addr, newLocalObject(db.objs[addr]))

\* the read accessors that only make sure the record exists: Exist, Empty,
\* GetBalance, GetNonce, GetCodeHash, GetCodeSize, StorageTrie
DiffTouch(db, lo, addr) ==
    IF getStateObject(db, addr).present
    THEN [db |-> db, lo |-> EnsureLocal(db, lo, addr)]
    ELSE [db |-> db, lo |-> lo]

\* DiffStateDb.HasSuicided: no bookkeeping at all
DiffHasSuicided(db, lo, addr) == [db |-> db, lo |-> lo]

\* DiffStateDb.GetCode: an existing record takes the object's code field as
\* it is before stateObject.Code loads it
DiffGetCode(db, lo, addr) ==
    IF getStateObject(db, addr).present
    THEN [db |-> objCode(db, addr),
          lo |-> IF addr \in DOMAIN lo
                 THEN [lo EXCEPT ![addr].code = db.objs[addr].code]
                 ELSE SetLocal(lo, addr, newLocalObject(db.objs[addr]))]
    ELSE [db |-> db, lo |-> lo]

\* DiffStateDb.GetCommittedState
DiffGetCommittedState(db, lo, addr, key) ==
    IF getStateObject(db, addr).present
    THEN [db |-> objGetCommittedState(db, addr, key), lo |-> EnsureLocal(db, lo, addr)]
    ELSE [db |-> db, lo |-> lo]

\* DiffStateDb.GetState
DiffGetState(db, lo, addr, key) ==
    IF getStateObject(db, addr).present
    THEN [db |-> objGetState(db, addr, key), lo |-> EnsureLocal(db, lo, addr)]
    ELSE [db |-> db, lo |-> lo]

\* a CreateAccount that keeps the record the address already has
DiffCreateAccount_KeepRecord(db, lo, addr) ==
    LET prev == createObjectPrev(db, addr)
        db1 == createObject(db, addr)
        db2 == IF prev.present THEN setBalance(db1, addr, prev.Balance) ELSE db1
    IN [db |-> db2, lo |-> EnsureLocal(db2, lo, addr)]

\* DiffStateDb.CreateAccount
DiffCreateAccount(db, lo, addr) ==
    LET prev == createObjectPrev(db, addr)
        db1 == createObject(db, addr)
        db2 == IF prev.present THEN setBalance(db1, addr, prev.Balance) ELSE db1
    IN [db |-> db2, lo |-> SetLocal(lo, addr, newLocalObject(db2.objs[addr]))]

\* DiffStateDb.GetOrNewStateObject
DiffGetOrNewStateObject(db, lo, addr) ==
    LET db1 == IF getStateObject(db, addr).present THEN db ELSE createObject(db, addr)
    IN [db |-> db1, lo |-> EnsureLocal(db1, lo, addr)]

\* an AddBalance that leaves the record of an address already touched alone
DiffAddBalance_NoCurrent(db, lo, addr, amount) ==
    LET g == DiffGetOrNewStateObject(db, lo, addr)
    IN [db |-> objAddBalance(g.db, addr, amount), lo |-> g.lo]

\* DiffStateDb.AddBalance
DiffAddBalance(db, lo, addr, amount) ==
    LET g == DiffGetOrNewStateObject(db, lo, addr)
        obj == g.db.objs[addr]
        rec == IF addr \in DOMAIN g.lo
               THEN [g.lo[addr] EXCEPT !.currentAccount.Balance = obj.Balance + amount]
               ELSE [newLocalObject(obj) EXCEPT !.currentAccount.Balance = obj.Balance + amount]
    IN [db |-> objAddBalance(g.db, addr, amount), lo |-> SetLocal(g.lo, addr, rec)]

\* DiffStateDb.SubBalance
DiffSubBalance(db, lo, addr, amount) ==
    LET g == DiffGetOrNewStateObject(db, lo, addr)
        obj == g.db.objs[addr]
        rec == IF addr \in DOMAIN g.lo
               THEN [g.lo[addr] EXCEPT !.currentAccount.Balance = obj.Balance - amount]
               ELSE [newLocalObject(obj) EXCEPT !.currentAccount.Balance = obj.Balance - amount]
    IN [db |-> objSubBalance(g.db, addr, amount), lo |-> SetLocal(g.lo, addr, rec)]

\* a SetNonce that writes the nonce into both accounts of the record
DiffSetNonce_BothAccounts(db, lo, addr, nonce) ==
    LET g == DiffGetOrNewStateObject(db, lo, addr)
        rec == [g.lo[addr] EXCEPT !.currentAccount.Nonce = nonce, !.originAccount.Nonce = nonce]
    IN [db |-> objSetNonce(g.db, addr, nonce), lo |-> SetLocal(g.lo, addr, rec)]

\* DiffStateDb.SetNonce
DiffSetNonce(db, lo, addr, nonce) ==
    LET g == DiffGetOrNewStateObject(db, lo, addr)
        rec == IF addr \in DOMAIN g.lo
               THEN [g.lo[addr] EXCEPT !.currentAccount.Nonce = nonce]
               ELSE [newLocalObject(g.db.objs[addr]) EXCEPT !.currentAccount.Nonce = nonce]
    IN [db |-> objSetNonce(g.db, addr, nonce), lo |-> SetLocal(g.lo, addr, rec)]

\* DiffStateDb.SetCode: the record's code is set, its currentAccount is not
DiffSetCode(db, lo, addr, code) ==
    LET g == DiffGetOrNewStateObject(db, lo, addr)
        rec == IF addr \in DOMAIN g.lo
               THEN [g.lo[addr] EXCEPT !.code = code]
               ELSE newLocalObject(g.db.objs[addr])
    IN [db |-> objSetCode(g.db, addr, Keccak256Hash(code), code),
        lo |-> SetLocal(g.lo, addr, rec)]

\* DiffStateDb.SetState: the bookkeeping writes into the maps the record
\* holds, and only then is the write delegated to stateObject.SetState
DiffSetState(db, lo, addr, key, value) ==
    LET g == DiffGetOrNewStateObject(db, lo, addr)
        obj == g.db.objs[addr]
        fresh == newLocalObject(obj)
        \* !exist: "if value, ok := newObj.originStorage[key]; !ok" shadows value
        \* with the zero value of the missing key
        mapsNew ==
            IF Has(g.db.maps[fresh.originStorage], key)
            THEN g.db.maps
            ELSE [[g.db.maps EXCEPT ![fresh.originStorage] = Put(@, key, 0)]
                        EXCEPT ![fresh.currentStorage] = Put(@, key, 0)]
        \* exist
        rec == g.lo[addr]
        maps1 == IF Has(g.db.maps[rec.originStorage], key)
                 THEN g.db.maps
                 ELSE [g.db.maps EXCEPT ![rec.originStorage] = Put(@, key, value)]
        mapsOld == [maps1 EXCEPT ![rec.currentStorage] = Put(@, key, value)]
        db1 == IF addr \in DOMAIN g.lo
               THEN [g.db EXCEPT !.maps = mapsOld]
               ELSE [g.db EXCEPT !.maps = mapsNew]
        lo1 == IF addr \in DOMAIN g.lo THEN g.lo ELSE SetLocal(g.lo, addr, fresh)
    IN [db |-> objSetState(db1, addr, key, value), lo |-> lo1]

\* DiffStateDb.Suicide: the record made for an address not yet in LocalObject
\* is a local variable only, it is never stored
DiffSuicide(db, lo, addr) ==
    IF ~getStateObject(db, addr).present
    THEN [db |-> db, lo |-> lo]
    ELSE [db |-> objSuicide(db, addr),
          lo |-> IF addr \in DOMAIN lo
                 THEN [lo EXCEPT ![addr].currentAccount.Balance = 0]
                 ELSE lo]

\* ------------------------------------------------------------------ TxDb
\* The sqlite table diffs is rows (committed) and pending (inserted in the
\* open transaction). tx: which sql.Tx txDb.tx holds (they are numbered as
\* db.Begin returns them). stmt: the sql.Tx txDb.stmt was prepared in. txDone: the sql.Tx held in txDb.tx was committed or
\* rolled back. stmtOk: txDb.stmt was prepared in the transaction txDb.tx
\* holds and is not closed. A storage call fails when the caller's choice
\* `fail` names it: "exec", "commit", "begin", "prepare".
Fails == {"none", "exec", "commit", "begin", "prepare"}

\* NewTxDb: cache is 256 in the source, Threshold in the model
NewTxDb ==
    [rows |-> {}, pending |-> {}, tx |-> 1, stmt |-> 1, txDone |-> FALSE, stmtOk |-> TRUE,
     numCalls |-> 0, cache |-> Threshold, closed |-> FALSE]

Row(txHash, tx) == [txHash |-> txHash, tx |-> tx, verified |-> FALSE, pass |-> FALSE]

\* INSERT or REPLACE in place of INSERT or IGNORE
insertStatement_Replace(st, txHash, tx) ==
    [st EXCEPT !.pending = {r \in st.pending : r.txHash # txHash} \cup {Row(txHash, tx)},
               !.rows = {r \in st.rows : r.txHash # txHash}]

\* insertStatement: INSERT or IGNORE on the primary key txHash, which sees
\* the committed rows and those of the open transaction
insertStatement(st, txHash, tx) ==
    IF \E r \in st.rows \cup st.pending : r.txHash = txHash
    THEN st
    ELSE [st EXCEPT !.pending = st.pending \cup {Row(txHash, tx)}]

\* TxDb.resetTx
resetTx(st, fail) ==
    LET st1 == [st EXCEPT !.numCalls = 0]
    IN IF fail = "begin" \/ st.closed
       THEN [st |-> st1, err |-> "begin"]
       ELSE IF fail = "prepare"
       THEN [st |-> [st1 EXCEPT !.tx = st.tx + 1, !.txDone = FALSE, !.stmtOk = FALSE],
             err |-> "prepare"]
       ELSE [st |-> [st1 EXCEPT !.tx = st.tx + 1, !.stmt = st.tx + 1,
                                !.txDone = FALSE, !.stmtOk = TRUE],
             err |-> "nil"]

\* TxDb.ForceCommit. sql.Tx.Commit marks the transaction done and closes its
\* statements whether or not the commit succeeds; a failed commit rolls back.
ForceCommit(st, fail) ==
    IF st.txDone
    THEN [st |-> st, err |-> "commit"]
    ELSE IF fail = "commit" \/ st.closed
    THEN [st |-> [st EXCEPT !.pending = {}, !.txDone = TRUE, !.stmtOk = FALSE],
          err |-> "commit"]
    ELSE resetTx([st EXCEPT !.rows = st.rows \cup st.pending, !.pending = {},
                            !.txDone = TRUE, !.stmtOk = FALSE], fail)

\* an InsertTx whose statement runs outside the open transaction, so that
\* its row is committed at once
InsertTx_Autocommit(st, txHash, tx, fail) ==
    IF fail = "exec" \/ ~st.stmtOk \/ st.txDone \/ st.closed
    THEN [st |-> st, err |-> "exec"]
    ELSE LET st0 == IF \E r \in st.rows \cup st.pending : r.txHash = txHash
                    THEN st
                    ELSE [st EXCEPT !.rows = st.rows \cup {Row(txHash, tx)}]
             st1 == [st0 EXCEPT !.numCalls = st.numCalls + 1]
         IN IF st1.numCalls >= st1.cache
            THEN ForceCommit(st1, fail)
            ELSE [st |-> st1, err |-> "nil"]

\* an InsertTx that counts the call before the insert is executed
InsertTx_CountsFailed(st, txHash, tx, fail) ==
    IF fail = "exec" \/ ~st.stmtOk \/ st.txDone \/ st.closed
    THEN [st |-> [st EXCEPT !.numCalls = st.numCalls + 1], err |-> "exec"]
    ELSE LET st1 == [insertStatement(st, txHash, tx) EXCEPT !.numCalls = st.numCalls + 1]
         IN IF st1.numCalls >= st1.cache
            THEN ForceCommit(st1, fail)
            ELSE [st |-> st1, err |-> "nil"]

\* an InsertTx that commits one call late
InsertTx_Late(st, txHash, tx, fail) ==
    IF fail = "exec" \/ ~st.stmtOk \/ st.txDone \/ st.closed
    THEN [st |-> st, err |-> "exec"]
    ELSE LET st1 == [insertStatement(st, txHash, tx) EXCEPT !.numCalls = st.numCalls + 1]
         IN IF st1.numCalls > st1.cache
            THEN ForceCommit(st1, fail)
            ELSE [st |-> st1, err |-> "nil"]

\* TxDb.InsertTx
InsertTx(st, txHash, tx, fail) ==
    IF fail = "exec" \/ ~st.stmtOk \/ st.txDone \/ st.closed
    THEN [st |-> st, err |-> "exec"]
    ELSE LET st1 == [insertStatement(st, txHash, tx) EXCEPT !.numCalls = st.numCalls + 1]
         IN IF st1.numCalls >= st1.cache
            THEN ForceCommit(st1, fail)
            ELSE [st |-> st1, err |-> "nil"]

\* the storage calls an InsertTx on st can reach, which are those that can fail
FailsOfInsert(st) ==
    IF st.numCalls + 1 >= st.cache THEN Fails ELSE {"none", "exec"}

\* a Close that commits the open transaction first
Close_Flush(st) ==
    [st EXCEPT !.closed = TRUE, !.rows = st.rows \cup st.pending, !.pending = {},
               !.txDone = TRUE, !.stmtOk = FALSE]

\* TxDb.Close: sql.DB.Close, which commits nothing
Close(st) == [st EXCEPT !.closed = TRUE, !.pending = {}, !.txDone = TRUE, !.stmtOk = FALSE]

\* ------------------------------------------------------------ transcript
\* common.Hash.Hex / Address.Hex, common.Bytes2Hex, big.Int.String
Hex(x) == "0x" \o x
Bytes2Hex(b) == IF b = NilCode THEN "" ELSE b
HashHex(v) == "0x" \o ToString(v)
String(n) == ToString(n)

\* the orders in which a range over a Go map with key set S can run
Orders(S) ==
    {f \in [1..Cardinality(S) -> S] : \A i, j \in 1..Cardinality(S) : f[i] = f[j] => i = j}

\* for each record, an order of the range over its originStorage or
\* currentStorage map
RangeOrders(lo, maps, field) ==
    {f \in [DOMAIN lo -> UNION {Orders(DOMAIN maps[lo[a][field]]) : a \in DOMAIN lo}] :
        \A a \in DOMAIN lo : f[a] \in Orders(DOMAIN maps[lo[a][field]])}

AccountStore(acc) ==
    [Nonce |-> acc.Nonce, Balance |-> String(acc.Balance), CodeHash |-> Bytes2Hex(acc.CodeHash)]

\* originStorage := make([]storage, len(m)), then one append per key of m
\* in the order the range visits them
storageList(m, order) ==
    [i \in 1..Cardinality(DOMAIN m) |-> [Key |-> "", Value |-> ""]]
    \o [i \in 1..Len(order) |-> [Key |-> Hex(order[i]), Value |-> HashHex(m[order[i]])]]

stateObjectStore(addr, rec, maps, oOrder, cOrder) ==
    [Address |-> Hex(addr),
     Code |-> Bytes2Hex(rec.code),
     OriginAccount |-> AccountStore(rec.originAccount),
     CurrentAccount |-> AccountStore(rec.currentAccount),
     OriginStorage |-> storageList(maps[rec.originStorage], oOrder),
     CurrentStorage |-> storageList(maps[rec.currentStorage], cOrder)]

\* the TxStore that Submit marshals
TxStore(m, lo, maps, addrOrder, oOrder, cOrder) ==
    [Height |-> String(m.height),
     From |-> Hex(m.from),
     BlockHash |-> Hex(m.bhash),
     Coinbase |-> Hex(m.coinbase),
     TimeStamp |-> m.timestamp,
     TxHash |-> Hex(m.thash),
     TxIndex |-> m.txIndex,
     RawTx |-> Bytes2Hex(m.rawTx),
     StateObjectStore |->
        [i \in 1..Len(addrOrder) |->
            stateObjectStore(addrOrder[i], lo[addrOrder[i]], maps,
                             oOrder[addrOrder[i]], cOrder[addrOrder[i]])]]

\* the metadata of the transactions Prepare is called with
NoMeta ==
    [height |-> 0, coinbase |-> "00", thash |-> "00", bhash |-> "00",
     timestamp |-> 0, txIndex |-> 0, rawTx |-> NilCode, from |-> "00"]
\* the i-th transaction Prepare is called for (i from 0)
MetaOf(i) ==
    IF i % 2 = 0
    THEN [height |-> 7, coinbase |-> "C0", thash |-> "abc", bhash |-> "b7",
          timestamp |-> 1000, txIndex |-> i, rawTx |-> "f86b", from |-> "A1"]
    ELSE [height |-> 7, coinbase |-> "C0", thash |-> "def", bhash |-> "b7",
          timestamp |-> 1000, txIndex |-> i, rawTx |-> "f86c", from |-> "A2"]

\* a Submit that keeps the working set when the insert failed
DiffSubmit_KeepOnFailure(m, lo, maps, st, hasStore, addrOrder, oOrder, cOrder, fail) ==
    LET ins == InsertTx(st, Hex(m.thash), TxStore(m, lo, maps, addrOrder, oOrder, cOrder), fail)
    IN [lo |-> IF hasStore /\ ins.err # "nil" THEN lo ELSE EmptyMap,
        st |-> IF hasStore THEN ins.st ELSE st,
        warned |-> IF hasStore
                   THEN IF ins.err # "nil" THEN "cannot InsertTx" ELSE ""
                   ELSE "Ignore tx"]

\* DiffStateDb.Submit, from the marshalled transcript on: the insert, the
\* warning it logs, the reset of LocalObject
DiffSubmit(m, lo, maps, st, hasStore, addrOrder, oOrder, cOrder, fail) ==
    LET txStoreBytes == TxStore(m, lo, maps, addrOrder, oOrder, cOrder)
        ins == InsertTx(st, Hex(m.thash), txStoreBytes, fail)
    IN [lo |-> EmptyMap,
        st |-> IF hasStore THEN ins.st ELSE st,
        warned |-> IF hasStore
                   THEN IF ins.err # "nil" THEN "cannot InsertTx" ELSE ""
                   ELSE "Ignore tx"]

\* ----------------------------------------------------------------- state
VARIABLES
    sdb,          \* the embedded *StateDB (objects, storage maps, journal, revisions)
    LocalObject,  \* DiffStateDb.LocalObject: address -> record
    meta,         \* height, coinbase, thash, bhash, timestamp, txIndex, rawTx, from
    txDb,         \* the TxDb behind DiffStateDb.txDb
    hasStore,     \* DiffStateDb.txDb != nil
    warned,       \* what the last Submit passed to log.Warn ("" when nothing)
    call,         \* the last call made on the store and what it returned
    faulty,       \* a storage call has failed, or the store was closed
    batch,        \* the (txHash, tx) pairs inserted without error since the last successful commit
    accepted,     \* every InsertTx call whose statement was executed, in call order, and whether it returned nil
    ref,          \* a StateDB driven by the same calls without the tracker
    hist,         \* per address, the kinds of accessor called since LocalObject was last emptied
    pre,          \* per address, the account as it was before the first of those calls
    phase,        \* the caller's place in the Prepare, accesses, Finalise, Submit cycle
    nOps, nTxs, nCalls,   \* calls made so far, for the bounds
    pc, txi, submits      \* Process: where it is, the transaction index, Submit calls per transaction

vars == <<sdb, LocalObject, meta, txDb, hasStore, warned, call, faulty, batch, accepted, ref, hist, pre,
          phase, nOps, nTxs, nCalls, pc, txi, submits>>

storeVars == <<txDb, call, faulty, batch, accepted, nCalls>>
trackerVars == <<sdb, LocalObject, meta, hasStore, warned, ref, hist, pre, phase, nOps, nTxs>>
procVars == <<pc, txi, submits>>
counters == <<nOps, nTxs>>

NoCall == [op |-> "", txHash |-> "", tx |-> "", err |-> "", dup |-> FALSE]
Unseen == [seen |-> FALSE, exist |-> FALSE, Nonce |-> 0, Balance |-> 0, CodeHash |-> ""]

\* the account as the base engine reports it
AccountView(db, addr) ==
    [seen |-> TRUE, exist |-> RetExist(db, addr), Nonce |-> RetGetNonce(db, addr),
     Balance |-> RetGetBalance(db, addr), CodeHash |-> getStateObject(db, addr).CodeHash]

Init ==
    /\ sdb = NewStateDB
    /\ ref = NewStateDB
    /\ LocalObject = EmptyMap
    /\ meta = NoMeta
    /\ txDb = NewTxDb
    /\ hasStore \in BOOLEAN
    /\ warned = ""
    /\ call = NoCall
    /\ faulty = FALSE
    /\ batch = <<>>
    /\ accepted = <<>>
    /\ hist = [a \in Addrs |-> {}]
    /\ pre = [a \in Addrs |-> Unseen]
    /\ phase = "idle"
    /\ nOps = 0 /\ nTxs = 0 /\ nCalls = 0
    /\ pc = "idle" /\ txi = 0 /\ submits = <<>>

\* what a call on the store leaves in call, faulty, batch and accepted: a ForceCommit
\* and the insert that fills the batch commit it, unless the commit fails
Called(op, txHash, tx, err) ==
    /\ call' = [op |-> op, txHash |-> txHash, tx |-> tx, err |-> err,
                dup |-> op = "InsertTx" /\ err # "exec"
                        /\ \E x \in txDb.rows \cup txDb.pending : x.txHash = txHash]
    /\ faulty' = (faulty \/ err # "nil" \/ op = "Close")
    /\ accepted' = IF op = "InsertTx" /\ err # "exec"
                   THEN Append(accepted, [txHash |-> txHash, tx |-> tx, ok |-> err = "nil"])
                   ELSE accepted
    /\ batch' = LET b == IF op = "InsertTx" /\ err # "exec"
                         THEN Append(batch, [txHash |-> txHash, tx |-> tx])
                         ELSE batch
                IN IF op # "Close" /\ err \in {"nil", "begin", "prepare"}
                      /\ (op = "ForceCommit" \/ Len(b) >= Threshold)
                   THEN <<>> ELSE b

\* one accessor call on addr: the tracker's result r, the same call on ref
Accessed(r, refdb, addr, kind) ==
    /\ phase = "exec"
    /\ nOps < MaxOps
    /\ nOps' = nOps + 1
    /\ sdb' = r.db
    /\ LocalObject' = r.lo
    /\ ref' = refdb
    /\ hist' = [hist EXCEPT ![addr] = @ \cup {kind}]
    /\ pre' = IF pre[addr].seen THEN pre ELSE [pre EXCEPT ![addr] = AccountView(sdb, addr)]
    /\ UNCHANGED <<meta, hasStore, warned, storeVars, procVars, phase, nTxs>>

Read(r, refdb, addr) == Accessed(r, refdb, addr, "read")
Write(r, refdb, addr, kind) == Accessed(r, refdb, addr, kind)

\* the values the calls are made with
Amounts == {100}
SubAmounts == {50}
Nonces == {5}
Codes == {"c2"}
Vals == {2}

\* a Prepare that makes the map only when there is none
DiffPrepare_KeepsRecords(lo, m) == [lo |-> lo, meta |-> m]

\* DiffStateDb.Prepare: a new, empty LocalObject and the metadata
DiffPrepare(lo, m) == [lo |-> EmptyMap, meta |-> m]

PrepareCall ==
    /\ nTxs < MaxTxs
    /\ nTxs' = nTxs + 1
    /\ phase' = "exec"
    /\ LocalObject' = DiffPrepare(LocalObject, MetaOf(nTxs)).lo
    /\ meta' = DiffPrepare(LocalObject, MetaOf(nTxs)).meta
    /\ hist' = [a \in Addrs |-> {}]
    /\ pre' = [a \in Addrs |-> Unseen]
    /\ UNCHANGED <<sdb, ref, hasStore, warned, storeVars, procVars, nOps>>

\* Prepare before the first transaction and after a Submit
Prepare == phase = "idle" /\ PrepareCall

\* Prepare while the transaction before it was not submitted
PrepareAgain == phase # "idle" /\ PrepareCall

Exist == \E a \in Addrs : Read(DiffTouch(sdb, LocalObject, a), ref, a)
Empty == \E a \in Addrs : Read(DiffTouch(sdb, LocalObject, a), ref, a)
GetBalance == \E a \in Addrs : Read(DiffTouch(sdb, LocalObject, a), ref, a)
GetNonce == \E a \in Addrs : Read(DiffTouch(sdb, LocalObject, a), ref, a)
GetCodeHash == \E a \in Addrs : Read(DiffTouch(sdb, LocalObject, a), ref, a)
GetCodeSize == \E a \in Addrs : Read(DiffTouch(sdb, LocalObject, a), ref, a)
GetCode ==
    \E a \in Addrs : Read(DiffGetCode(sdb, LocalObject, a), StateDBGetCode(ref, a), a)
GetCommittedState ==
    \E a \in Addrs, k \in Keys :
        Read(DiffGetCommittedState(sdb, LocalObject, a, k), StateDBGetCommittedState(ref, a, k), a)
GetState ==
    \E a \in Addrs, k \in Keys :
        Read(DiffGetState(sdb, LocalObject, a, k), StateDBGetState(ref, a, k), a)
HasSuicided ==
    \E a \in Addrs : Read(DiffHasSuicided(sdb, LocalObject, a), ref, a)

CreateAccountAt(a) ==
    Write(DiffCreateAccount(sdb, LocalObject, a), StateDBCreateAccount(ref, a), a, "create")
CreateAccount == \E a \in Addrs : CreateAccountAt(a)
AddBalance ==
    \E a \in Addrs, amount \in Amounts :
        Write(DiffAddBalance(sdb, LocalObject, a, amount), StateDBAddBalance(ref, a, amount),
              a, "balance")
\* callers check CanTransfer first: the amount is at most the balance
SubBalance ==
    \E a \in Addrs, amount \in SubAmounts :
        /\ amount <= RetGetBalance(sdb, a)
        /\ Write(DiffSubBalance(sdb, LocalObject, a, amount), StateDBSubBalance(ref, a, amount),
                 a, "balance")
SetNonce ==
    \E a \in Addrs, n \in Nonces :
        Write(DiffSetNonce(sdb, LocalObject, a, n), StateDBSetNonce(ref, a, n), a, "nonce")
SetCode ==
    \E a \in Addrs, c \in Codes :
        Write(DiffSetCode(sdb, LocalObject, a, c), StateDBSetCode(ref, a, c), a, "code")
SetState ==
    \E a \in Addrs, k \in Keys, v \in Vals :
        Write(DiffSetState(sdb, LocalObject, a, k, v), StateDBSetState(ref, a, k, v), a, "state")
\* the EVM calls Suicide on the executing contract, which exists
Suicide ==
    \E a \in Addrs :
        /\ RetExist(sdb, a)
        /\ Write(DiffSuicide(sdb, LocalObject, a), StateDBSuicide(ref, a), a, "suicide")

\* DiffStateDb.Snapshot (StateDB.Snapshot through the embedding)
TakeSnapshot ==
    /\ phase = "exec"
    /\ sdb.nextRevisionId < MaxRevisions
    /\ nOps < MaxOps
    /\ nOps' = nOps + 1
    /\ sdb' = Snapshot(sdb)
    /\ ref' = Snapshot(ref)
    /\ UNCHANGED <<LocalObject, meta, hasStore, warned, hist, pre, storeVars, procVars, phase, nTxs>>

\* DiffStateDb.RevertToSnapshot with a revision id it finds
RevertTo(revid, cost) ==
    /\ phase = "exec"
    /\ revertible(sdb, revid)
    /\ nOps + cost <= MaxOps
    /\ nOps' = nOps + cost
    /\ sdb' = RevertToSnapshot(sdb, revid)
    /\ ref' = RevertToSnapshot(ref, revid)
    /\ hist' = [a \in Addrs |-> hist[a] \cup {"revert"}]
    /\ UNCHANGED <<LocalObject, meta, hasStore, warned, pre, storeVars, procVars, phase, nTxs>>

Revert == \E revid \in 0..(sdb.nextRevisionId - 1) : RevertTo(revid, 1)

\* the same call when the calls counted are the accessor and Snapshot calls
RevertUncounted == \E revid \in 0..(sdb.nextRevisionId - 1) : RevertTo(revid, 0)

\* StateDB.Finalise(true), which applyTransaction calls before Submit
DoFinalise ==
    /\ phase = "exec"
    /\ phase' = "finalised"
    /\ sdb' = Finalise(sdb)
    /\ ref' = Finalise(ref)
    /\ UNCHANGED <<LocalObject, meta, hasStore, warned, hist, pre, storeVars, procVars, counters>>

Submit ==
    \E addrOrder \in Orders(DOMAIN LocalObject),
       oOrder \in RangeOrders(LocalObject, sdb.maps, "originStorage"),
       cOrder \in RangeOrders(LocalObject, sdb.maps, "currentStorage"),
       fail \in FailsOfInsert(txDb) :
        LET r == DiffSubmit(meta, LocalObject, sdb.maps, txDb, hasStore,
                            addrOrder, oOrder, cOrder, fail)
            txStoreBytes == TxStore(meta, LocalObject, sdb.maps, addrOrder, oOrder, cOrder)
        IN /\ phase = "finalised"
           /\ phase' = "idle"
           /\ LocalObject' = r.lo
           /\ txDb' = r.st
           /\ warned' = r.warned
           /\ IF hasStore
              THEN Called("InsertTx", Hex(meta.thash), txStoreBytes,
                          InsertTx(txDb, Hex(meta.thash), txStoreBytes, fail).err)
              ELSE UNCHANGED <<call, faulty, batch, accepted>>
           /\ hist' = [a \in Addrs |-> {}]
           /\ pre' = [a \in Addrs |-> Unseen]
           /\ UNCHANGED <<sdb, ref, meta, hasStore, nCalls, procVars, nOps, nTxs>>

Next ==
    \/ Prepare
    \/ Exist \/ Empty \/ GetBalance \/ GetNonce \/ GetCodeHash \/ GetCodeSize
    \/ GetCode \/ GetCommittedState \/ GetState \/ HasSuicided
    \/ CreateAccount \/ AddBalance \/ SubBalance \/ SetNonce \/ SetCode \/ SetState \/ Suicide
    \/ TakeSnapshot \/ Revert \/ DoFinalise
    \/ Submit

Spec == Init /\ [][Next]_vars

\* ------------------------- the tracker without a store, called in any order
InitApi == Init /\ ~hasStore

NextApi == Next \/ PrepareAgain \/ RevertUncounted

SpecApi == InitApi /\ [][NextApi]_vars

\* ------------------------------------------------- the store on its own
Payloads == {"p1", "p2"}
StoreHashes == TxHashes \cup {"123"}

CallInsertTx ==
    \E h \in StoreHashes, p \in Payloads, fail \in FailsOfInsert(txDb) :
        LET r == InsertTx(txDb, Hex(h), p, fail)
        IN /\ nCalls < MaxStoreCalls
           /\ nCalls' = nCalls + 1
           /\ txDb' = r.st
           /\ Called("InsertTx", Hex(h), p, r.err)
           /\ UNCHANGED <<trackerVars, procVars>>

CallForceCommit ==
    \E fail \in Fails \ {"exec"} :
        LET r == ForceCommit(txDb, fail)
        IN /\ nCalls < MaxStoreCalls
           /\ nCalls' = nCalls + 1
           /\ txDb' = r.st
           /\ Called("ForceCommit", "", "", r.err)
           /\ UNCHANGED <<trackerVars, procVars>>

CallClose ==
    /\ nCalls < MaxStoreCalls
    /\ ~txDb.closed
    /\ nCalls' = nCalls + 1
    /\ txDb' = Close(txDb)
    /\ Called("Close", "", "", "nil")
    /\ UNCHANGED <<trackerVars, procVars>>

InitStore == Init /\ hasStore

NextStore == CallInsertTx \/ CallForceCommit \/ CallClose

SpecStore == InitStore /\ [][NextStore]_vars

\* ------------------------------------------- StateProcessor.Process
\* ApplyMessage as the processor sees it: an error before execution (the
\* pre-check read the sender's nonce), an execution that went through, an
\* execution the EVM reverted to its snapshot
Outcomes == {"err", "ok", "failed"}

ApplyMessage(db, lo, from, outcome) ==
    LET r1 == DiffTouch(db, lo, from)
        r2 == DiffSetNonce(r1.db, r1.lo, from, 5)
        r3 == DiffAddBalance(Snapshot(r2.db), r2.lo, "A2", 100)
    IN IF outcome = "err" THEN r1
       ELSE IF outcome = "ok" THEN r3
       ELSE [db |-> RevertToSnapshot(r3.db, r2.db.nextRevisionId), lo |-> r3.lo]

StateDBApplyMessage(db, from, outcome) ==
    LET d2 == StateDBSetNonce(db, from, 5)
        d3 == StateDBAddBalance(Snapshot(d2), "A2", 100)
    IN IF outcome = "err" THEN db
       ELSE IF outcome = "ok" THEN d3
       ELSE RevertToSnapshot(d3, d2.nextRevisionId)

\* Process is entered with a block of MaxBlockTxs transactions
ProcessBlock ==
    /\ pc = "idle"
    /\ pc' = "loop"
    /\ UNCHANGED <<sdb, ref, LocalObject, meta, hasStore, warned, hist, pre, phase,
                   storeVars, counters, txi, submits>>

\* one turn of the loop up to the call of applyTransaction: AsMessage,
\* statedb.Prepare, and in applyTransaction NewDiffDb
ProcessTx ==
    \E asMessageErr \in BOOLEAN :
        /\ pc = "loop"
        /\ txi < MaxBlockTxs
        /\ IF asMessageErr
           THEN /\ pc' = "error"
                /\ UNCHANGED <<LocalObject, meta, hist, pre, submits>>
           ELSE /\ pc' = "apply"
                /\ LocalObject' = EmptyMap
                /\ meta' = MetaOf(txi)
                /\ hist' = [a \in Addrs |-> {}]
                /\ pre' = [a \in Addrs |-> Unseen]
                /\ submits' = Append(submits, 0)
        /\ UNCHANGED <<sdb, ref, hasStore, warned, phase, storeVars, counters, txi>>

\* applyTransaction up to the return of ApplyMessage
ApplyTransaction ==
    \E outcome \in Outcomes :
        LET r == ApplyMessage(sdb, LocalObject, meta.from, outcome)
        IN /\ pc = "apply"
           /\ pc' = IF outcome = "err" THEN "error" ELSE "applied"
           /\ sdb' = r.db
           /\ LocalObject' = r.lo
           /\ ref' = StateDBApplyMessage(ref, meta.from, outcome)
           /\ UNCHANGED <<meta, hasStore, warned, hist, pre, phase, storeVars, counters,
                          txi, submits>>

\* applyTransaction after ApplyMessage returned no error: Finalise, the
\* receipt, diffDb.Submit, and the loop's next turn
FinishTransaction ==
    \E addrOrder \in Orders(DOMAIN LocalObject),
       oOrder \in RangeOrders(LocalObject, sdb.maps, "originStorage"),
       cOrder \in RangeOrders(LocalObject, sdb.maps, "currentStorage"),
       fail \in FailsOfInsert(txDb) :
        LET db == Finalise(sdb)
            r == DiffSubmit(meta, LocalObject, db.maps, txDb, hasStore,
                            addrOrder, oOrder, cOrder, fail)
        IN /\ pc = "applied"
           /\ pc' = "loop"
           /\ sdb' = db
           /\ ref' = Finalise(ref)
           /\ LocalObject' = r.lo
           /\ txDb' = r.st
           /\ warned' = r.warned
           /\ IF hasStore
              THEN Called("InsertTx", Hex(meta.thash),
                          TxStore(meta, LocalObject, db.maps, addrOrder, oOrder, cOrder),
                          InsertTx(txDb, Hex(meta.thash),
                                   TxStore(meta, LocalObject, db.maps, addrOrder, oOrder, cOrder),
                                   fail).err)
              ELSE UNCHANGED <<call, faulty, batch, accepted>>
           /\ submits' = [submits EXCEPT ![Len(submits)] = @ + 1]
           /\ txi' = txi + 1
           /\ UNCHANGED <<meta, hasStore, hist, pre, phase, nCalls, counters>>

\* the loop is through: engine.Finalize, and Process returns the receipts
ProcessReturn ==
    /\ pc = "loop"
    /\ txi = MaxBlockTxs
    /\ pc' = "returned"
    /\ UNCHANGED <<sdb, ref, LocalObject, meta, hasStore, warned, hist, pre, phase,
                   storeVars, counters, txi, submits>>

NextProc == ProcessBlock \/ ProcessTx \/ ApplyTransaction \/ FinishTransaction \/ ProcessReturn

SpecProc == Init /\ [][NextProc]_vars

\* ================================================================ properties
\* the record addr has in the working set
Record(a) == LocalObject[a]
Tracked(a) == a \in DOMAIN LocalObject

\* ------------------------------------------------------------------- C1
\* C1 as stated: originAccount of an address, once captured, never changes
\* while the record is in the working set, whatever accessor is called
\* (CreateAccount included).
C1_OriginNeverChanges ==
    [][\A a \in Addrs :
          (a \in DOMAIN LocalObject /\ a \in DOMAIN LocalObject')
              => LocalObject'[a].originAccount = LocalObject[a].originAccount]_vars

\* C1 amended: originAccount of an address, once captured, is changed by no
\* accessor other than CreateAccount on that address, which replaces the
\* record; a CreateAccount on an address of balance b leaves an origin
\* account of nonce 0 and balance b.
C1_OriginFixedButForCreate ==
    [][\A a \in Addrs :
          (a \in DOMAIN LocalObject /\ a \in DOMAIN LocalObject')
              => IF CreateAccountAt(a)
                 THEN LocalObject'[a].originAccount =
                          [Nonce |-> 0, Balance |-> RetGetBalance(sdb, a),
                           CodeHash |-> emptyCodeHash]
                 ELSE LocalObject'[a].originAccount = LocalObject[a].originAccount]_vars

\* a record whose address was first read and then written: nonce 1 captured,
\* nonce 5 current
C1_Witness ==
    /\ Tracked("A1")
    /\ hist["A1"] = {"read", "nonce"}
    /\ Record("A1").originAccount.Nonce = 1
    /\ Record("A1").currentAccount.Nonce = 5

\* ------------------------------------------------------------------- C2
StorageOf(a, field) == sdb.maps[Record(a)[field]]

\* C2: an address that was only read since the working set was emptied
\* (RevertToSnapshot calls in between or not) has a
\* record whose origin account equals its current account and whose origin
\* storage equals its current storage on every key; the record holds one
\* code, which is origin and current at once.
C2_ReadOnlyUnchanged ==
    \A a \in Addrs :
        (Tracked(a) /\ hist[a] \subseteq {"read", "revert"})
            => /\ Record(a).originAccount = Record(a).currentAccount
               /\ \A k \in Keys :
                     /\ Has(StorageOf(a, "originStorage"), k) = Has(StorageOf(a, "currentStorage"), k)
                     /\ Lookup(StorageOf(a, "originStorage"), k) = Lookup(StorageOf(a, "currentStorage"), k)

\* an address only read, a storage key among the reads, at Submit
C2_Witness ==
    /\ phase = "finalised"
    /\ Tracked("A1")
    /\ hist["A1"] = {"read"}
    /\ Has(StorageOf("A1", "currentStorage"), "02")
    /\ Record("A1").currentAccount = [Nonce |-> 1, Balance |-> 50, CodeHash |-> "h(c1)"]

C4_OriginStorageIsPreValue ==
    \A a \in Addrs, k \in Keys :
        (Tracked(a) /\ hist[a] = {"state"} /\ Has(StorageOf(a, "currentStorage"), k))
            => Lookup(StorageOf(a, "originStorage"), k) = RetGetCommittedState(ref, a, k)

\* ------------------------------------------------------------------- C5
\* C5: CreateAccount(addr) leaves for addr a fresh record, whatever record
\* addr had: origin and current account are the new account's, of nonce 0,
\* no code, no storage, and of the balance b the address had in the base
\* engine, which is still its balance there.
C5_CreateAccountFreshRecord ==
    [][\A a \in Addrs :
          CreateAccountAt(a)
              => LET b == RetGetBalance(sdb, a)
                     fresh == [Nonce |-> 0, Balance |-> b, CodeHash |-> emptyCodeHash]
                 IN /\ a \in DOMAIN LocalObject'
                    /\ LocalObject'[a].originAccount = fresh
                    /\ LocalObject'[a].currentAccount = fresh
                    /\ LocalObject'[a].code = NilCode
                    /\ sdb'.maps[LocalObject'[a].originStorage] = EmptyMap
                    /\ sdb'.maps[LocalObject'[a].currentStorage] = EmptyMap
                    /\ RetGetBalance(sdb', a) = b
                    /\ RetGetNonce(sdb', a) = 0]_vars

\* CreateAccount on the pre-existing A1 (nonce 1, balance 50) that had a
\* record with a written nonce
C5_Witness ==
    /\ Tracked("A1")
    /\ hist["A1"] = {"nonce", "create"}
    /\ Record("A1").currentAccount = [Nonce |-> 0, Balance |-> 50, CodeHash |-> emptyCodeHash]
    /\ RetGetBalance(sdb, "A1") = 50
    /\ RetGetNonce(sdb, "A1") = 0

\* ------------------------------------------------------------------- C6
\* C6: the accessors return through the tracker what they return on a base
\* engine that was given the same calls directly.
C6_TrackerIsTransparent == Observable(sdb) = Observable(ref)

\* ------------------------------------------------------------------- C7
\* C7: a Submit leaves the working set empty and the base engine as it was,
\* whether the insert succeeded, failed or there is no store; a failed insert
\* leaves a warning and nothing else, no store leaves the store untouched.
C7_SubmitAlwaysClears ==
    [][(phase = "finalised" /\ phase' = "idle")
          => /\ LocalObject' = EmptyMap
             /\ sdb' = sdb
             /\ hasStore => (warned' = "cannot InsertTx") = (call'.err # "nil")
             /\ ~hasStore => (warned' = "Ignore tx" /\ txDb' = txDb)]_vars

\* a Submit whose insert failed, after a transaction that changed the state
C7_Witness ==
    /\ phase = "idle"
    /\ nTxs = 1
    /\ warned = "cannot InsertTx"
    /\ call.err = "exec"
    /\ LocalObject = EmptyMap
    /\ RetGetBalance(sdb, "A2") = 100

\* ------------------------------------------------------------------- C8
\* C8: when Process is through, with the receipts or with an error, Submit
\* was called exactly once for every transaction that was handed to
\* applyTransaction.
C8_SubmitOncePerTransaction ==
    pc \in {"returned", "error"} => \A i \in 1..Len(submits) : submits[i] = 1

\* ------------------------------------------------------------------- C9
\* the rows the table shows for a transaction hash, committed or not
RowsOf(st, txHash) == {r \in st.rows \cup st.pending : r.txHash = txHash}

\* C9: the table never shows two rows for one transaction hash, and an
\* InsertTx under a hash the table already shows, in the open batch or
\* committed, whose storage calls go through returns no error and leaves the
\* one row of that hash as it is, with the payload inserted first.
C9_InsertIgnoresDuplicate ==
    \A h \in StoreHashes :
        /\ Cardinality(RowsOf(txDb, Hex(h))) <= 1
        /\ (RowsOf(txDb, Hex(h)) # {} /\ txDb.stmtOk /\ ~txDb.txDone /\ ~txDb.closed)
               => \A p \in Payloads :
                     LET r == InsertTx(txDb, Hex(h), p, "none")
                     IN /\ r.err = "nil"
                        /\ RowsOf(r.st, Hex(h)) = RowsOf(txDb, Hex(h))
        /\ (call.op = "InsertTx" /\ call.dup /\ call.err = "nil" /\ call.txHash = Hex(h))
               => Cardinality(RowsOf(txDb, Hex(h))) = 1

\* a second insert under a committed hash returned no error and the row still
\* holds the first payload
C9_Witness ==
    /\ call.op = "InsertTx" /\ call.dup /\ call.err = "nil"
    /\ call.txHash = Hex("abc") /\ call.tx = "p2"
    /\ Row(Hex("abc"), "p1") \in txDb.rows
    /\ RowsOf(txDb, Hex("abc")) = {Row(Hex("abc"), "p1")}

\* ------------------------------------------------------------------ C10
\* C10: while every storage call goes through, an InsertTx that is not the
\* Threshold-th of its batch commits nothing and counts one more pending
\* call; the Threshold-th commits every transcript of the batch and sets the
\* count of pending calls to zero, so that the next InsertTx is the first of
\* a batch again.
C10_BatchCommitsAtThreshold ==
    [][(nCalls' = nCalls + 1 /\ call'.op = "InsertTx" /\ ~faulty')
          => /\ txDb.numCalls = Len(batch)
             /\ Len(batch) < Threshold
             /\ IF Len(batch) + 1 < Threshold
                THEN /\ txDb'.rows = txDb.rows
                     /\ txDb'.numCalls = Len(batch) + 1
                     /\ RowsOf(txDb', call'.txHash) # {}
                ELSE /\ txDb'.numCalls = 0
                     /\ txDb'.pending = {}
                     /\ txDb'.rows = txDb.rows \cup txDb.pending \cup RowsOf(txDb', call'.txHash)
                     /\ RowsOf(txDb', call'.txHash) # {}
                     /\ \A i \in 1..Len(batch) : RowsOf(txDb', batch[i].txHash) \subseteq txDb'.rows
                     /\ \A i \in 1..Len(batch) : RowsOf(txDb', batch[i].txHash) # {}]_vars

\* Threshold + 1 calls of InsertTx with different hashes, all going through:
\* Threshold rows committed, one pending
C10_Witness ==
    /\ ~faulty
    /\ call.op = "InsertTx"
    /\ nCalls = Threshold + 1
    /\ Cardinality(txDb.rows) = Threshold
    /\ Cardinality(txDb.pending) = 1
    /\ txDb.numCalls = 1
    /\ Len(batch) = 1

\* ------------------------------------------------------------------ C11
\* the rows a sequence of inserts leaves under INSERT or IGNORE: for every
\* hash the first payload
FirstRows(seq) ==
    {Row(seq[i].txHash, seq[i].tx) :
        i \in {i \in 1..Len(seq) : \A j \in 1..(i - 1) : seq[j].txHash # seq[i].txHash}}

IsPrefixRows(rows, seq) == \E n \in 0..Len(seq) : rows = FirstRows(SubSeq(seq, 1, n))

\* the InsertTx calls that returned nil, in call order
Successful == SelectSeq(accepted, LAMBDA e : e.ok)

C12_CloseCommitsNothing ==
    [][(nCalls' = nCalls + 1 /\ call'.op = "Close")
          => /\ txDb'.rows = txDb.rows
             /\ txDb'.pending = {}
             /\ txDb.pending \cap txDb'.rows = {}
             /\ (call.op = "ForceCommit" /\ call.err = "nil")
                   => txDb'.rows = FirstRows(accepted')]_vars

\* a Close with one transcript in the open batch: nothing is committed
C12_Witness ==
    /\ call.op = "Close"
    /\ Len(batch) = 1
    /\ Len(accepted) = 1
    /\ txDb.rows = {}
    /\ txDb.pending = {}

\* ------------------------------------------------------------------ C13
\* C13: a ForceCommit that returns an error leaves the transaction, the
\* statement and the counter either all as they were or all replaced, and the
\* statement is one of the transaction the store holds.
C13_ForceCommitErrorIsAtomic ==
    [][(nCalls' = nCalls + 1 /\ call'.op = "ForceCommit" /\ call'.err # "nil")
          => /\ txDb'.stmt = txDb'.tx
             /\ \/ (txDb'.tx = txDb.tx /\ txDb'.stmt = txDb.stmt
                        /\ txDb'.numCalls = txDb.numCalls)
                \/ (txDb'.tx # txDb.tx /\ txDb'.stmt # txDb.stmt
                        /\ txDb'.numCalls = 0)]_vars

\* ------------------------------------------------------------------ C18
\* C18: in every state the number of transcripts (of different hashes)
\* inserted since the last successful commit is at most Threshold - 1.
C18_AtMostThresholdMinusOnePending ==
    Cardinality({batch[i].txHash : i \in 1..Len(batch)}) <= Threshold - 1

C15_PrepareEmptiesWorkingSet ==
    [][(nTxs' = nTxs + 1)
          => /\ LocalObject' = EmptyMap
             /\ meta' = MetaOf(nTxs)
             /\ sdb' = sdb
             /\ Observable(sdb') = Observable(sdb)]_vars

\* the second Prepare came while the first transaction's writes were neither
\* finalised nor submitted: the working set is empty, the metadata is the
\* second transaction's
C15_Witness ==
    /\ nTxs = 2
    /\ phase = "exec"
    /\ LocalObject = EmptyMap
    /\ \A a \in Addrs : hist[a] = {}
    /\ sdb.journal # <<>>
    /\ RetGetBalance(sdb, "A2") = 100
    /\ meta = MetaOf(1)

\* ------------------------------------------------------------------ C16
\* C16: a Submit made while the working set is empty is a no-op: nothing is
\* inserted into the store and the store's counter does not advance.
C16_EmptySubmitIsNoOp ==
    [][(phase = "finalised" /\ phase' = "idle" /\ LocalObject = EmptyMap)
          => /\ txDb' = txDb
             /\ accepted' = accepted]_vars

\* ------------------------------------------------------------------ C17
\* C17: a Suicide on an existing account, touched earlier in the transaction
\* or not, leaves a record of the address in the working set whose
\* currentAccount.Balance is zero; a record that was there keeps its
\* originAccount, code and storage fields.
C17_SuicideRecordsZeroBalance ==
    [][\A a \in Addrs :
          (/\ RetExist(sdb, a)
           /\ Write(DiffSuicide(sdb, LocalObject, a), StateDBSuicide(ref, a), a, "suicide"))
              => /\ a \in DOMAIN LocalObject'
                 /\ LocalObject'[a].currentAccount.Balance = 0
                 /\ a \in DOMAIN LocalObject
                       => /\ LocalObject'[a].originAccount = LocalObject[a].originAccount
                          /\ LocalObject'[a].code = LocalObject[a].code
                          /\ LocalObject'[a].originStorage = LocalObject[a].originStorage
                          /\ LocalObject'[a].currentStorage = LocalObject[a].currentStorage]_vars

\* ------------------------------------------------------------------ C19
\* C19: the transcript Submit builds is a function of the metadata and the
\* working set alone: whatever order the maps are ranged over, the
\* transcript is the same.
C19_TranscriptIsAFunction ==
    \A o1, o2 \in Orders(DOMAIN LocalObject) :
        \A oo1, oo2 \in RangeOrders(LocalObject, sdb.maps, "originStorage") :
            \A co1, co2 \in RangeOrders(LocalObject, sdb.maps, "currentStorage") :
                TxStore(meta, LocalObject, sdb.maps, o1, oo1, co1) =
                    TxStore(meta, LocalObject, sdb.maps, o2, oo2, co2)

\* ------------------------------------------------------------------ C20
\* C20: once an accessor (HasSuicided and the write accessors included) was
\* called on an existing address, the working set holds a record of it whose
\* originAccount is the account as it was before the first such call, and
\* whose currentAccount is the same as long as only read accessors were
\* called (CreateAccount, which replaces the record, set aside).
C20_FirstAccessCreatesRecord ==
    \A a \in Addrs :
        (pre[a].seen /\ pre[a].exist /\ "create" \notin hist[a])
            => /\ Tracked(a)
               /\ Record(a).originAccount =
                      [Nonce |-> pre[a].Nonce, Balance |-> pre[a].Balance,
                       CodeHash |-> pre[a].CodeHash]
               /\ hist[a] \subseteq {"read", "revert"}
                      => Record(a).currentAccount = Record(a).originAccount

\* ------------------------------------------------------------------ C21
\* C21: after a write accessor the current half of the record holds what was
\* written and the origin half of a record that was there is as before:
\* SetNonce(addr, n) gives currentAccount.Nonce = n, SetCode(addr, c) gives
\* code = c and currentAccount.CodeHash = hash(c), SetState(addr, k, v) gives
\* currentStorage[k] = v.
C21_WritesReachCurrentHalf ==
    [][\A a \in Addrs :
          /\ \A n \in Nonces :
                Write(DiffSetNonce(sdb, LocalObject, a, n), StateDBSetNonce(ref, a, n), a, "nonce")
                    => /\ LocalObject'[a].currentAccount.Nonce = n
                       /\ a \in DOMAIN LocalObject
                             => LocalObject'[a].originAccount = LocalObject[a].originAccount
          /\ \A c \in Codes :
                Write(DiffSetCode(sdb, LocalObject, a, c), StateDBSetCode(ref, a, c), a, "code")
                    => /\ LocalObject'[a].code = c
                       /\ LocalObject'[a].currentAccount.CodeHash = Keccak256Hash(c)
                       /\ a \in DOMAIN LocalObject
                             => LocalObject'[a].originAccount = LocalObject[a].originAccount
          /\ \A k \in Keys, v \in Vals :
                Write(DiffSetState(sdb, LocalObject, a, k, v), StateDBSetState(ref, a, k, v),
                      a, "state")
                    => Lookup(sdb'.maps[LocalObject'[a].currentStorage], k) = v]_vars

\* ------------------------------------------------------------------ C22
\* C22: the code a record got when it was created stays in the record until
\* Submit, whatever SetCode and GetCode calls are made on the address
\* (CreateAccount, which replaces the record, set aside).
C22_OriginCodeSetOnce ==
    [][\A a \in Addrs :
          (a \in DOMAIN LocalObject /\ a \in DOMAIN LocalObject' /\ ~CreateAccountAt(a))
              => LocalObject'[a].code = LocalObject[a].code]_vars

\* ------------------------------------------------------------------ C23
\* C23: after GetCode(addr) or GetCodeSize(addr) on an existing account the
\* record's code is the code the base engine has for the account, also when
\* the base engine loads it during the call and when the call is the first
\* access to the address.
C23_CodeReadIsRecorded ==
    [][\A a \in Addrs :
          (/\ getStateObject(sdb, a).present
           /\ \/ Read(DiffGetCode(sdb, LocalObject, a), StateDBGetCode(ref, a), a)
              \/ Read(DiffTouch(sdb, LocalObject, a), ref, a))
              => /\ a \in DOMAIN LocalObject'
                 /\ LocalObject'[a].code = RetGetCode(sdb, a)]_vars

\* ------------------------------------------------------------------ C24
\* C24: in the transcript Submit builds, the originStorage list and the
\* currentStorage list of a record have one entry per key of the map, with
\* the key's value, and nothing else.
C24_StorageListMatchesMap ==
    \A addrOrder \in Orders(DOMAIN LocalObject) :
        \A oOrder \in RangeOrders(LocalObject, sdb.maps, "originStorage") :
            \A cOrder \in RangeOrders(LocalObject, sdb.maps, "currentStorage") :
                LET t == TxStore(meta, LocalObject, sdb.maps, addrOrder, oOrder, cOrder)
                IN \A i \in 1..Len(t.StateObjectStore) :
                      LET a == addrOrder[i]
                          o == StorageOf(a, "originStorage")
                          c == StorageOf(a, "currentStorage")
                      IN /\ Len(t.StateObjectStore[i].OriginStorage) = Cardinality(DOMAIN o)
                         /\ Len(t.StateObjectStore[i].CurrentStorage) = Cardinality(DOMAIN c)
                         /\ \A k \in DOMAIN o :
                               \E j \in 1..Len(t.StateObjectStore[i].OriginStorage) :
                                  t.StateObjectStore[i].OriginStorage[j] =
                                      [Key |-> Hex(k), Value |-> HashHex(o[k])]
                         /\ \A k \in DOMAIN c :
                               \E j \in 1..Len(t.StateObjectStore[i].CurrentStorage) :
                                  t.StateObjectStore[i].CurrentStorage[j] =
                                      [Key |-> Hex(k), Value |-> HashHex(c[k])]

\* ------------------------------------------------------------------ C25
\* the addresses an accessor was called on since the last Prepare, where the
\* account existed or the call was a write (which creates it)
TouchedSincePrepare ==
    {a \in Addrs : /\ pre[a].seen
                   /\ \/ pre[a].exist
                      \/ hist[a] \cap {"create", "balance", "nonce", "code", "state"} # {}}

\* C25: a Submit with a non-empty working set calls the store's InsertTx
\* once, under the transaction hash of the last Prepare, with a transcript
\* that carries that Prepare's metadata and the records of exactly the
\* addresses accessed since it.
C25_SubmitInsertsThisTransaction ==
    [][(phase = "finalised" /\ phase' = "idle" /\ hasStore /\ LocalObject # EmptyMap)
          => LET m == MetaOf(nTxs - 1)
                 t == call'.tx
             IN /\ call'.op = "InsertTx"
                /\ call'.txHash = Hex(m.thash)
                /\ t.TxHash = Hex(m.thash)
                /\ t.TxIndex = m.txIndex
                /\ t.From = Hex(m.from)
                /\ t.BlockHash = Hex(m.bhash)
                /\ t.RawTx = Bytes2Hex(m.rawTx)
                /\ {t.StateObjectStore[i].Address : i \in 1..Len(t.StateObjectStore)} =
                       {Hex(a) : a \in TouchedSincePrepare}]_vars

\* ------------------------------------------------------------------ C26
\* the revision ids in the list of valid revisions
ValidIds(db) == {db.validRevisions[i].id : i \in 1..Len(db.validRevisions)}

C27_CounterCountsExecutedInserts ==
    [][/\ txDb.numCalls = Len(batch)
       /\ txDb'.numCalls = Len(batch')
       /\ (nCalls' = nCalls + 1 /\ call'.op = "InsertTx" /\ call'.err = "exec")
             => /\ txDb' = txDb
                /\ batch' = batch]_vars

\* after a commit, an insert under a committed key was ignored and counted,
\* then an insert failed: the counter is still 1
C27_Witness ==
    /\ call.op = "InsertTx"
    /\ call.err = "exec"
    /\ ~txDb.txDone
    /\ txDb.rows # {}
    /\ txDb.pending = {}
    /\ txDb.numCalls = 1
    /\ Len(batch) = 1

\* ------------------------------------------------------------------ C28
\* C28: a ForceCommit that returns nil, at any pending count, makes the
\* pending transcripts durable, opens a new transaction and sets the counter
\* to zero; a ForceCommit whose commit fails returns the commit error and
\* leaves the counter and the open transaction, with what was inserted in
\* it, as they were.
C28_ForceCommitAllOrNothing ==
    [][(nCalls' = nCalls + 1 /\ call'.op = "ForceCommit")
          => /\ call'.err = "nil"
                   => /\ txDb'.rows = txDb.rows \cup txDb.pending
                      /\ txDb'.pending = {}
                      /\ txDb'.tx # txDb.tx
                      /\ ~txDb'.txDone
                      /\ txDb'.numCalls = 0
             /\ call'.err = "commit"
                   => /\ txDb'.numCalls = txDb.numCalls
                      /\ txDb'.tx = txDb.tx
                      /\ txDb'.stmt = txDb.stmt
                      /\ txDb'.txDone = txDb.txDone
                      /\ txDb'.pending = txDb.pending
                      /\ txDb'.rows = txDb.rows]_vars
====
